---- MODULE Spec2Model ----
(***************************************************************************)
(* speedcam: the frame loop of main(), removeCar, Car.SpaceTimeTravelled,  *)
(* Car.MiddleMat and the publisher goroutine that drains carMessageChan.   *)
(*                                                                         *)
(* The centroid tracker (blob.CentroidTracker), the MOSSE refinement       *)
(* tracker, the video source, S3 and AMQP are libraries: their results are *)
(* inputs chosen with \E.  Lengths are pixels, feet are kept in            *)
(* thousandths (milli-feet), timestamps are clock readings in seconds.     *)
(***************************************************************************)
EXTENDS Integers, Sequences, FiniteSets, TLC

\* ---------------------------------------------------------------- bounds
MaxIds == 3        \* identities the tracker hands out over a run
MaxFrames == 4     \* reads of the video stream
MaxNew == 2        \* identities the tracker registers in one Update
MaxClock == 1      \* last reading of the clock
MaxUpdates == 5    \* Update calls on the identity tracker
MaxTrackerIds == 4 \* identities the identity tracker registers

\* ------------------------------------------------------ program constants
TanHalfFovMicro == 1482561      \* math.Tan(degToRad(fov*0.5)) * 10^6, fov = 112
DistanceToRoadTenths == 495     \* distance_to_road = 49.5
image_width == 640
MinFtMilli == 60000             \* ft >= 60
MphPerFpsMilli == 682           \* 0.681818, to three decimals

IDs == 1..MaxIds

\* Centers the refinement tracker reports.  The two valid centers are the
\* ends of the hypotenuse of a 180 x 240 right triangle, 300 pixels apart, so
\* every distance is a whole number of pixels; <<0, 0>> is the center of the
\* empty rectangle a failed update returns, <<0, 20>> that of a rectangle
\* that left the frame on the left.
ValidCenters == { <<20, 20>>, <<200, 260>> }
FailedCenters == { <<0, 0>>, <<0, 20>> }
Centers == ValidCenters \cup FailedCenters

VARIABLES
    loopPc,          \* position of the frame loop in main()
    framesRead,      \* webcam.Read calls that returned a frame
    now,             \* the clock: last reading of time.Now()
    trackerObjects,  \* keys of tracker.Objects
    trackerNewObjects, \* tracker.NewObjects of the last Update
    nextId,          \* next fresh uuid
    cars,            \* the CarRegister: id -> Track
    pending,         \* removeCar calls the current frame still has to make
    sceneClear,      \* the frame took the branch of line 513
    sendMsg,         \* the CarMessage removeCar is sending (loopPc = "send")
    pubPc,           \* position of the publisher goroutine
    carMessage,      \* the message the publisher received
    published,       \* history: ch.Publish calls, per id
    removeCalls,     \* history: removeCar invocations, per id
    fin,             \* history: the last removeCar call that returned in
                     \* the current frame, with what it computed
    emitted,         \* history: messages sent on carMessageChan, per id
    refineFailed,    \* history: the ids whose refinement tracker returned a
                     \* degenerate center in the current frame
    tracker,         \* the identity tracker (blob.CentroidTracker)
    pad              \* the last padRect call: argument and result

vars == << loopPc, framesRead, now, trackerObjects, trackerNewObjects, nextId,
           cars, pending, sceneClear, sendMsg, pubPc, carMessage, published,
           removeCalls, fin, emitted, refineFailed, tracker, pad >>

NoMsg == [id |-> 0]
NoFin == [id |-> 0]
NoPad == [called |-> FALSE]
NoTracker == [idents |-> << >>, next |-> 1, updates |-> 0, seen |-> FALSE]

\* the identity tracker's configuration (line 407 passes 20, 40, 10; the
\* disappearance limit is scaled down to keep the runs short)
maxDisappearedFrames == 2
maxMatchDistance == 40

\* detection centers: on one line, 30, 40 and 70 pixels apart
TrackerCenters == { <<10, 100>>, <<40, 100>>, <<80, 100>> }

\* rectangles and paddings handed to padRect (line 254 of main.go pads by 20)
PadXs == {0, 10, 630, 639}
PadYs == {0, 10, 470, 479}
PadAmounts == {0, 20}
PadRects ==
    { r \in [Min : [X : PadXs, Y : PadYs], Max : [X : PadXs, Y : PadYs]] :
        r.Min.X <= r.Max.X /\ r.Min.Y <= r.Max.Y }

\* ----------------------------------------------------------- pure helpers
Abs(x) == IF x < 0 THEN -x ELSE x

\* math.Sqrt on the whole numbers the model feeds it (floor of the root)
Sqrt(n) == CHOOSE r \in 0..1000 : r * r <= n /\ n < (r + 1) * (r + 1)

distanceBetweenPoints(p1, p2) ==
    LET intX == Abs(p1[1] - p2[1])
        intY == Abs(p1[2] - p2[2])
    IN  Sqrt(intX * intX + intY * intY)

\* the loop of SpaceTimeTravelled: for i := 0; i < len(c.Track)-2; i++
\* (0-based i is the 1-based pair (i+1, i+2))
RECURSIVE SumPairs(_, _)
SumPairs(track, n) ==
    IF n <= 0 THEN 0
    ELSE SumPairs(track, n - 1)
         + distanceBetweenPoints(track[n].Point, track[n + 1].Point)

LoopBound(track) == Len(track) - 2

SpaceTimeTravelled(track) ==
    IF Len(track) = 0
    THEN [distance |-> 0, timeTaken |-> 0, err |-> TRUE]
    ELSE [distance  |-> SumPairs(track, LoopBound(track)),
          timeTaken |-> track[Len(track)].Created - track[1].Created,
          err       |-> FALSE]

\* mutant of line 90: the last snapshot instead of the middle one
MiddleMat_last(track) ==
    IF Len(track) = 0
    THEN [mat |-> 0, err |-> TRUE]
    ELSE [mat |-> track[Len(track)].Mat, err |-> FALSE]

\* (index len/2 of the 0-based slice is element len \div 2 + 1 here)
MiddleMat(track) ==
    IF Len(track) = 0
    THEN [mat |-> 0, err |-> TRUE]
    ELSE [mat |-> track[(Len(track) \div 2) + 1].Mat, err |-> FALSE]

frame_width == (2 * TanHalfFovMicro * DistanceToRoadTenths) \div 10000

\* ft := distance * ftperpixel, in milli-feet
Ft(distance) == (distance * frame_width) \div image_width

\* mutants of the threshold test of line 251
FarEnough_inverted(ft) == ft <= MinFtMilli
FarEnough_always(ft) == ft >= 0

\* line 251: if ft >= 60
FarEnough(ft) == ft >= MinFtMilli

\* mph := (ft / duration.Seconds()) * 0.681818 ; a float division by zero
\* of a positive ft is +Inf
Mph(ft, duration) ==
    IF duration = 0 THEN [inf |-> TRUE, milli |-> 0]
    ELSE [inf |-> FALSE, milli |-> ((ft \div duration) * MphPerFpsMilli) \div 1000]

\* mutant of line 301: the entry is left in the register
Delete_forgotten(register, id) == register

\* line 301: delete(register, id)
Delete(register, id) == [k \in DOMAIN register \ {id} |-> register[k]]

\* ------------------------------------------------------------ frame loop
Perms(S) ==
    { s \in [1..Cardinality(S) -> S] :
        \A i, j \in 1..Cardinality(S) : i # j => s[i] # s[j] }

Rep(x, n) == [k \in 1..n |-> x]

\* mutant of lines 528-534: one key of tracker.Objects is left out
NumCalls_oneShort(id, objs) ==
    IF Cardinality({ o \in objs : o # id }) = 0 THEN 0
    ELSE Cardinality({ o \in objs : o # id }) - 1

\* lines 527-535: for every id of carIDs, one removeCar call for every key o
\* of tracker.Objects with o # id
NumCalls(id, objs) == Cardinality({ o \in objs : o # id })

RECURSIVE Calls(_, _)
Calls(order, objs) ==
    IF order = << >> THEN << >>
    ELSE Rep(Head(order), NumCalls(Head(order), objs)) \o Calls(Tail(order), objs)

\* mutant of line 504: || instead of &&
ValidPoint_either(p) == p[1] > 0 \/ p[2] > 0

\* line 504: if newPoint.X > 0 && newPoint.Y > 0
ValidPoint(p) == p[1] > 0 /\ p[2] > 0

\* mutant of lines 472-481: the loop stops after the first id of NewObjects
Created_onlyFirst(register, new) ==
    [i \in DOMAIN register \cup { j \in new : \A k \in new : j <= k } |->
        IF i \in new THEN << >> ELSE register[i]]

\* lines 472-481: a Car with an empty Track for every id of NewObjects
Created(register, new) ==
    [i \in DOMAIN register \cup new |-> IF i \in new THEN << >> ELSE register[i]]

\* mutant of lines 484-488: a tracked id without a Car gets a new Car
Refined_recreate(register, objs, pos, t) ==
    [i \in DOMAIN register \cup objs |->
        IF i \notin DOMAIN register THEN << >>
        ELSE IF i \in objs /\ pos[i][1] > 0 /\ pos[i][2] > 0
        THEN Append(register[i], [Point |-> pos[i], Created |-> t,
                                  Mat |-> Len(register[i]) + 1])
        ELSE register[i]]

\* mutant of line 505: the new point is put in front of the track
Refined_prepend(register, objs, pos, t) ==
    [i \in DOMAIN register |->
        IF i \in objs /\ pos[i][1] > 0 /\ pos[i][2] > 0
        THEN << [Point |-> pos[i], Created |-> t,
                 Mat |-> Len(register[i]) + 1] >> \o register[i]
        ELSE register[i]]

\* lines 483-511: every key of tracker.Objects that has a Car gets the
\* refinement tracker's center appended when it is valid
\* (Mat names the snapshot by its ordinal among the car's snapshots)
Refined(register, objs, pos, t) ==
    [i \in DOMAIN register |->
        IF i \in objs /\ ValidPoint(pos[i])
        THEN Append(register[i], [Point |-> pos[i], Created |-> t,
                                  Mat |-> Len(register[i]) + 1])
        ELSE register[i]]

Alive == loopPc \in {"read", "remove", "send"}

Init ==
    /\ loopPc = "read"
    /\ framesRead = 0
    /\ now = 0
    /\ trackerObjects = {}
    /\ trackerNewObjects = {}
    /\ nextId = 1
    /\ cars = << >>
    /\ pending = << >>
    /\ sceneClear = FALSE
    /\ sendMsg = NoMsg
    /\ pubPc = "connecting"
    /\ carMessage = NoMsg
    /\ published = [i \in IDs |-> 0]
    /\ removeCalls = [i \in IDs |-> 0]
    /\ fin = NoFin
    /\ emitted = [i \in IDs |-> 0]
    /\ refineFailed = {}
    /\ tracker = NoTracker
    /\ pad = NoPad

\* mutant of lines 443-446: the live cars are finalized before main returns
StreamClosed_finalizing ==
    /\ loopPc = "read"
    /\ loopPc' = "closed"
    /\ removeCalls' = [i \in IDs |-> IF i \in DOMAIN cars THEN removeCalls[i] + 1
                                     ELSE removeCalls[i]]
    /\ cars' = << >>
    /\ UNCHANGED << refineFailed, tracker, pad,
                    framesRead, now, trackerObjects, trackerNewObjects, nextId,
                    pending, sceneClear, sendMsg, pubPc, carMessage,
                    published, fin, emitted >>

\* lines 443-446: webcam.Read fails, main returns
StreamClosed ==
    /\ loopPc = "read"
    /\ loopPc' = "closed"
    /\ UNCHANGED << refineFailed, tracker, pad,
                    framesRead, now, trackerObjects, trackerNewObjects, nextId,
                    cars, pending, sceneClear, sendMsg, pubPc, carMessage,
                    published, removeCalls, fin, emitted >>

\* lines 447-449: an empty image, continue
EmptyFrame ==
    /\ loopPc = "read"
    /\ framesRead < MaxFrames
    /\ framesRead' = framesRead + 1
    /\ fin' = NoFin
    /\ refineFailed' = {}
    /\ UNCHANGED << tracker, pad,
                    loopPc, now, trackerObjects, trackerNewObjects, nextId,
                    cars, pending, sceneClear, sendMsg, pubPc, carMessage,
                    published, removeCalls, emitted >>

\* lines 451-535 up to the first removeCar call: tracker.Update, the new
\* cars, the refinement of every tracked car, and the removeCar calls the
\* frame is going to make
Frame ==
    /\ loopPc = "read"
    /\ framesRead < MaxFrames
    /\ \E gone \in SUBSET trackerObjects, k \in 0..MaxNew, tick \in 0..1 :
        /\ nextId + k - 1 <= MaxIds
        /\ now + tick <= MaxClock
        /\ LET new  == nextId..(nextId + k - 1)
               objs == (trackerObjects \ gone) \cup new
               t    == now + tick
               reg  == Created(cars, new)
           IN  \E pos \in [objs \cap DOMAIN reg -> Centers] :
               LET reg2 == Refined(reg, objs, pos, t)
                   clear == Cardinality(objs) = 0 /\ Cardinality(DOMAIN reg2) > 0
               IN  \E order \in Perms(DOMAIN reg2) :
                   LET calls == IF clear THEN order ELSE Calls(order, objs)
                   IN  /\ trackerObjects' = objs
                       /\ trackerNewObjects' = new
                       /\ nextId' = nextId + k
                       /\ now' = t
                       /\ cars' = reg2
                       /\ refineFailed' = { i \in objs \cap DOMAIN reg :
                                              pos[i][1] <= 0 \/ pos[i][2] <= 0 }
                       /\ pending' = calls
                       /\ sceneClear' = clear
                       /\ loopPc' = IF calls = << >> THEN "read" ELSE "remove"
    /\ framesRead' = framesRead + 1
    /\ fin' = NoFin
    /\ UNCHANGED << tracker, pad,
                    sendMsg, pubPc, carMessage, published, removeCalls,
                    emitted >>

\* what removeCar(carMessageChan, register, id) computes from register[id]
Finalization(track, id, uploadOk) ==
    LET stt == SpaceTimeTravelled(track)
        mm  == MiddleMat(track)
        ft  == Ft(stt.distance)
    IN  [id |-> id, track |-> track, distance |-> stt.distance,
         duration |-> stt.timeTaken, err |-> mm.err, ft |-> ft,
         emit |-> (~mm.err) /\ FarEnough(ft),
         mat |-> mm.mat, uploadOk |-> uploadOk, before |-> cars]

\* the end of a removeCar call: delete(register, id), and the end of the
\* frame after the last call (line 518: cars = make(CarRegister))
Return(id) ==
    /\ pending' = Tail(pending)
    /\ IF Tail(pending) = << >>
       THEN /\ loopPc' = "read"
            /\ cars' = IF sceneClear THEN << >> ELSE Delete(cars, id)
       ELSE /\ loopPc' = "remove"
            /\ cars' = Delete(cars, id)

\* removeCar on an id that has no Car: register[id] is nil and
\* car.SpaceTimeTravelled() dereferences it (line 96)
removeCarNil ==
    /\ loopPc = "remove"
    /\ Head(pending) \notin DOMAIN cars
    /\ removeCalls' = [removeCalls EXCEPT ![Head(pending)] = @ + 1]
    /\ loopPc' = "panic"
    /\ UNCHANGED << refineFailed, tracker, pad,
                    framesRead, now, trackerObjects, trackerNewObjects, nextId,
                    cars, pending, sceneClear, sendMsg, pubPc, carMessage,
                    published, fin, emitted >>

\* removeCar, lines 240-251 and 301: nothing to emit
removeCarDiscard ==
    /\ loopPc = "remove"
    /\ Head(pending) \in DOMAIN cars
    /\ LET id == Head(pending)
           f  == Finalization(cars[id], id, TRUE)
       IN  /\ ~f.emit
           /\ removeCalls' = [removeCalls EXCEPT ![id] = @ + 1]
           /\ fin' = f
           /\ Return(id)
    /\ UNCHANGED << refineFailed, tracker, pad,
                    framesRead, now, trackerObjects, trackerNewObjects, nextId,
                    sceneClear, sendMsg, pubPc, carMessage, published, emitted >>

\* removeCar, lines 240-295: the upload (which may fail) and the message,
\* up to the send on the unbuffered carMessageChan
removeCarEmit ==
    /\ loopPc = "remove"
    /\ Head(pending) \in DOMAIN cars
    /\ \E uploadOk \in BOOLEAN :
       LET id == Head(pending)
           f  == Finalization(cars[id], id, uploadOk)
       IN  /\ f.emit
           /\ removeCalls' = [removeCalls EXCEPT ![id] = @ + 1]
           /\ sendMsg' = [id |-> id, Speed |-> Mph(f.ft, f.duration),
                          Distance |-> f.ft, fin |-> f]
           /\ loopPc' = "send"
    /\ UNCHANGED << refineFailed, tracker, pad,
                    framesRead, now, trackerObjects, trackerNewObjects, nextId,
                    cars, pending, sceneClear, pubPc, carMessage, published,
                    fin, emitted >>

\* line 295 meets line 373: the send completes when the publisher receives,
\* then removeCar returns through line 301
Send ==
    /\ loopPc = "send"
    /\ pubPc = "recv"
    /\ carMessage' = [id |-> sendMsg.id, Speed |-> sendMsg.Speed,
                       Distance |-> sendMsg.Distance]
    /\ pubPc' = "publish"
    /\ emitted' = [emitted EXCEPT ![sendMsg.id] = @ + 1]
    /\ sendMsg' = NoMsg
    /\ fin' = sendMsg.fin
    /\ Return(sendMsg.id)
    /\ UNCHANGED << refineFailed, tracker, pad,
                    framesRead, now, trackerObjects, trackerNewObjects, nextId,
                    sceneClear, published, removeCalls >>

\* ------------------------------------------------------------- publisher
\* lines 350-370: Dial, Channel, QueueDeclare succeed
PubConnect ==
    /\ Alive
    /\ pubPc = "connecting"
    /\ pubPc' = "recv"
    /\ UNCHANGED << refineFailed, tracker, pad,
                    loopPc, framesRead, now, trackerObjects, trackerNewObjects,
                    nextId, cars, pending, sceneClear, sendMsg, carMessage,
                    published, removeCalls, fin, emitted >>

\* lines 354, 358, 370: failOnError is log.Fatalf, the process exits
PubConnectFail ==
    /\ Alive
    /\ pubPc = "connecting"
    /\ pubPc' = "fatal"
    /\ loopPc' = "fatal"
    /\ UNCHANGED << refineFailed, tracker, pad,
                    framesRead, now, trackerObjects, trackerNewObjects,
                    nextId, cars, pending, sceneClear, sendMsg, carMessage,
                    published, removeCalls, fin, emitted >>

\* mutant of lines 380-389: a failed publish is tried again
AfterPublish_retry(ok) == IF ok THEN "recv" ELSE "publish"

\* lines 380-389: err of ch.Publish is assigned and never read, the loop
\* goes back to the receive of line 373
AfterPublish(ok) == "recv"

\* lines 375-388: json.Marshal, then ch.Publish whose error is dropped
PubPublish ==
    /\ Alive
    /\ pubPc = "publish"
    /\ ~carMessage.Speed.inf
    /\ published' = [published EXCEPT ![carMessage.id] = @ + 1]
    /\ \E ok \in BOOLEAN :
        /\ pubPc' = AfterPublish(ok)
        /\ carMessage' = IF AfterPublish(ok) = "recv" THEN NoMsg ELSE carMessage
    /\ UNCHANGED << refineFailed, tracker, pad,
                    loopPc, framesRead, now, trackerObjects, trackerNewObjects,
                    nextId, cars, pending, sceneClear, sendMsg, removeCalls,
                    fin, emitted >>

\* lines 375-376: json.Marshal rejects +Inf, failOnError exits the process
PubMarshalFail ==
    /\ Alive
    /\ pubPc = "publish"
    /\ carMessage.Speed.inf
    /\ pubPc' = "fatal"
    /\ loopPc' = "fatal"
    /\ UNCHANGED << refineFailed, tracker, pad,
                    framesRead, now, trackerObjects, trackerNewObjects,
                    nextId, cars, pending, sceneClear, sendMsg, carMessage,
                    published, removeCalls, fin, emitted >>

Next ==
    \/ StreamClosed
    \/ EmptyFrame
    \/ Frame
    \/ removeCarNil
    \/ removeCarDiscard
    \/ removeCarEmit
    \/ Send
    \/ PubConnect
    \/ PubConnectFail
    \/ PubPublish
    \/ PubMarshalFail

Spec == Init /\ [][Next]_vars

\* ------------------------------------------------------------- padRect
padRect(rect, padAmount) ==
    LET minX == rect.Min.X - padAmount
        minY == rect.Min.Y - padAmount
        maxX == rect.Max.X + padAmount
        maxY == rect.Max.Y + padAmount
        minX1 == IF minX < 0 THEN 0 ELSE minX
        minY1 == IF minY < 0 THEN 0 ELSE minY
        maxX1 == IF maxX > 639 THEN 639 ELSE maxX
        \* if max.Y > 479 { max.X = 479 }
        maxX2 == IF maxY > 479 THEN 479 ELSE maxX1
    IN  [Min |-> [X |-> minX1, Y |-> minY1], Max |-> [X |-> maxX2, Y |-> maxY]]

mainVars == << loopPc, framesRead, now, trackerObjects, trackerNewObjects,
               nextId, cars, pending, sceneClear, sendMsg, pubPc, carMessage,
               published, removeCalls, fin, emitted, refineFailed >>

\* a call of padRect
PadRectCall ==
    /\ \E rect \in PadRects, padAmount \in PadAmounts :
          pad' = [called |-> TRUE, rect |-> rect, padAmount |-> padAmount,
                  out |-> padRect(rect, padAmount)]
    /\ UNCHANGED mainVars
    /\ UNCHANGED tracker

SpecPad == Init /\ [][PadRectCall]_vars

\* ---------------------------------------------------- identity tracker
\* mutant: a pair at exactly maxMatchDistance is accepted
Eligible_atMost(d) == d <= maxMatchDistance

\* distances at or above maxMatchDistance are not eligible assignments
Eligible(d) == d < maxMatchDistance

\* mutant: deregistered on reaching the limit, one frame early
Exceeds_atLimit(n) == n >= maxDisappearedFrames

\* disappearedCount exceeds maxDisappearedFrames
Exceeds(n) == n > maxDisappearedFrames

\* the eligible (identity, center) pairs and the smallest of them
EligiblePairs(idents, ids, cs) ==
    { p \in ids \X cs :
        Eligible(distanceBetweenPoints(idents[p[1]].center, p[2])) }

MinPairs(idents, ids, cs) ==
    { p \in EligiblePairs(idents, ids, cs) :
        \A q \in EligiblePairs(idents, ids, cs) :
            distanceBetweenPoints(idents[p[1]].center, p[2])
                <= distanceBetweenPoints(idents[q[1]].center, q[2]) }

\* greedy nearest-neighbour assignment: every assignment that repeatedly
\* takes a globally smallest remaining eligible pair (ties are unspecified)
RECURSIVE Greedy(_, _, _)
Greedy(idents, ids, cs) ==
    IF MinPairs(idents, ids, cs) = {} THEN { {} }
    ELSE UNION { { {p} \cup a : a \in Greedy(idents, ids \ {p[1]}, cs \ {p[2]}) } :
                 p \in MinPairs(idents, ids, cs) }

\* the new identities, numbered in the order of their centers
Registered(cs, next) ==
    CHOOSE f \in [next..(next + Cardinality(cs) - 1) -> cs] :
        /\ \A i, j \in DOMAIN f : i # j => f[i] # f[j]
        /\ \A i, j \in DOMAIN f : i < j => f[i][1] < f[j][1]

\* one Update of the identity tracker on the centers dets
Updated(t, dets, a) ==
    LET old       == t.idents
        matched   == { p[1] : p \in a }
        taken     == { p[2] : p \in a }
        gone      == { i \in DOMAIN old \ matched :
                         Exceeds(old[i].disappearedCount + 1) }
        fresh     == Registered(dets \ taken, t.next)
        centerOf(i) == (CHOOSE p \in a : p[1] = i)[2]
    IN  [idents |->
            [i \in (DOMAIN old \ gone) \cup DOMAIN fresh |->
                IF i \in DOMAIN fresh
                THEN [center |-> fresh[i], disappearedCount |-> 0]
                ELSE IF i \in matched
                THEN [center |-> centerOf(i), disappearedCount |-> 0]
                ELSE [center |-> old[i].center,
                      disappearedCount |-> old[i].disappearedCount + 1]],
         next |-> t.next + Cardinality(dets \ taken),
         updates |-> t.updates + 1,
         seen |-> TRUE,
         before |-> old, dets |-> dets, assigned |-> a,
         new |-> DOMAIN fresh, disappeared |-> gone]

TrackerUpdate ==
    /\ tracker.updates < MaxUpdates
    /\ \E dets \in SUBSET TrackerCenters :
       \E a \in Greedy(tracker.idents, DOMAIN tracker.idents, dets) :
          /\ tracker.next + Cardinality(dets) - Cardinality(a) - 1 <= MaxTrackerIds
          /\ tracker' = Updated(tracker, dets, a)
    /\ UNCHANGED mainVars
    /\ UNCHANGED pad

SpecTracker == Init /\ [][TrackerUpdate]_vars

\* ================================================================ claims
\* the removeCar call the frame loop is about to make or is inside
CallId == Head(pending)
\* the step is the return of a removeCar call
Returns == pending # << >> /\ pending' = Tail(pending)
\* sum of the distances of all consecutive pairs of a track
RECURSIVE SumAllPairs(_)
SumAllPairs(track) ==
    IF Len(track) < 2 THEN 0
    ELSE SumAllPairs(SubSeq(track, 1, Len(track) - 1))
         + distanceBetweenPoints(track[Len(track) - 1].Point,
                                 track[Len(track)].Point)

\* C1: every id is finalized at most once: removeCar is carried out at most
\* once for it, at most one CarMessage is emitted for it, and once its
\* removeCar call has returned the id is not in cars.
C1_FinalizedAtMostOnce ==
    \A i \in IDs :
        /\ removeCalls[i] <= 1
        /\ emitted[i] <= 1
        /\ (removeCalls[i] >= 1 /\ ~(loopPc = "send" /\ sendMsg.id = i)
                => i \notin DOMAIN cars)

\* C2: a car is finalized only when its own id has left tracker.Objects
\* (which includes the empty identity set); a car whose id is still in
\* tracker.Objects stays in the register.
C2_FinalizedOnlyWhenGone ==
    /\ fin.id # 0 => fin.id \notin trackerObjects
    /\ trackerObjects \subseteq DOMAIN cars

\* C3: the frame loop never crashes: removeCar is never invoked for an id
\* that has no Car in the register, and the loop never panics.
C3_NoCrash ==
    /\ loopPc # "panic"
    /\ loopPc = "remove" => CallId \in DOMAIN cars

\* C4: for a track of two or more points, SpaceTimeTravelled returns the sum
\* of the distances of all consecutive pairs and the time between the first
\* and the last point.
C4_DistanceOfAllPairs ==
    (fin.id # 0 /\ Len(fin.track) >= 2) =>
        /\ fin.distance = SumAllPairs(fin.track)
        /\ fin.duration = fin.track[Len(fin.track)].Created - fin.track[1].Created

C6_ShortTrackDiscarded ==
    [][ (removeCalls' # removeCalls /\ CallId \in DOMAIN cars
            /\ Len(cars[CallId]) < 2)
        => /\ loopPc' \in {"read", "remove"}
           /\ emitted' = emitted
           /\ sendMsg' = NoMsg
           /\ CallId \notin DOMAIN cars' ]_vars
C6_Witness ==
    /\ fin.id # 0
    /\ Len(fin.track) = 1
    /\ emitted[fin.id] = 0
    /\ fin.id \notin DOMAIN cars
    /\ loopPc \in {"read", "remove"}

\* C7: an object finalized with an elapsed duration of zero or less is
\* discarded without a CarMessage: no message, sent or being sent, carries an
\* infinite speed.
C7_NoZeroDurationRecord ==
    /\ (fin.id # 0 /\ fin.duration <= 0) => emitted[fin.id] = 0
    /\ loopPc = "send" => ~sendMsg.Speed.inf
    /\ pubPc = "publish" => ~carMessage.Speed.inf

\* C8: the frame loop never waits for the publisher: whenever removeCar is at
\* its send on carMessageChan the publisher is at its receive.
C8_SendNeverWaits ==
    loopPc = "send" => pubPc = "recv"

\* C9: every removeCar call that returns has removed its id from the
\* register and left every other entry as it was.
C9_RemovesExactlyItsId ==
    [][ Returns =>
          /\ DOMAIN cars' = DOMAIN cars \ {CallId}
          /\ \A k \in DOMAIN cars' : cars'[k] = cars[k] ]_vars
C9_Witness ==
    /\ fin.id # 0
    /\ fin.emit
    /\ ~fin.uploadOk
    /\ DOMAIN fin.before = DOMAIN cars \cup {fin.id}
    /\ fin.id \notin DOMAIN cars
    /\ DOMAIN cars # {}

\* C10: at the end of every frame the keys of the register are keys of
\* tracker.Objects, and every car that is gone was finalized by removeCar.
C10_RegisterWithinTracker ==
    loopPc = "read" =>
        /\ DOMAIN cars \subseteq trackerObjects
        /\ \A i \in 1..(nextId - 1) : i \notin DOMAIN cars => removeCalls[i] >= 1
C10_Witness ==
    /\ loopPc = "read"
    /\ framesRead > 0
    /\ trackerObjects # {}
    /\ DOMAIN cars # {}
    /\ \E i \in IDs : removeCalls[i] = 1 /\ i \notin trackerObjects

\* C11: delivery is at most once: the publisher never calls ch.Publish more
\* often for an id than messages were sent for it, and the message it holds
\* has not been published before.
C11_AtMostOnceDelivery ==
    /\ \A i \in IDs : published[i] <= emitted[i]
    /\ pubPc = "publish" =>
          /\ carMessage.id \in IDs
          /\ published[carMessage.id] < emitted[carMessage.id]
C11_Witness ==
    \E i \in IDs : emitted[i] = 1 /\ published[i] = 1 /\ pubPc = "recv"

\* C12: the read that reports the stream closed and everything after it
\* leave the live cars alone: no removeCar call, no message, no change of
\* the register.
C12_NoFinalizationAtClose ==
    [][ loopPc' = "closed" =>
          /\ removeCalls' = removeCalls
          /\ emitted' = emitted
          /\ published' = published
          /\ cars' = cars ]_vars
C12_Witness ==
    /\ loopPc = "closed"
    /\ \E i \in DOMAIN cars : Len(cars[i]) >= 1 /\ removeCalls[i] = 0

\* C13: an id that has been handed out and is no longer in the register
\* never gets a Car again (the tracker reports every id as new once).
C13_TerminalIsFinal ==
    [][ \A i \in IDs :
          (i < nextId /\ i \notin DOMAIN cars) => i \notin DOMAIN cars' ]_vars
C13_Witness ==
    /\ fin = NoFin
    /\ framesRead >= 2
    /\ \E i \in trackerObjects : removeCalls[i] = 1 /\ i \notin DOMAIN cars

\* C17: MiddleMat fails exactly on the empty track, and otherwise the
\* snapshot removeCar uploads is the one of the TrackPoint at index
\* floor(len(Track)/2).
C17_MiddleSnapshot ==
    fin.id # 0 =>
        /\ fin.err <=> Len(fin.track) = 0
        /\ Len(fin.track) > 0 =>
              fin.mat = fin.track[(Len(fin.track) \div 2) + 1].Mat
C17_Witness ==
    /\ fin.id # 0
    /\ fin.emit
    /\ Len(fin.track) = 3
    /\ fin.mat = 2
    /\ emitted[fin.id] = 1

\* C18: a frame gives every id the tracker reports as new a Car, which at
\* the end of the frame's refinement holds nothing or the one point of this
\* frame, and gives no other id a Car.
C18_CarPerNewId ==
    [][ \A i \in IDs :
          /\ (i \in trackerNewObjects' /\ i >= nextId) =>
                /\ i \notin DOMAIN cars
                /\ i \in DOMAIN cars'
                /\ \/ cars'[i] = << >>
                   \/ /\ Len(cars'[i]) = 1
                      /\ cars'[i][1].Created = now'
                      /\ cars'[i][1].Mat = 1
          /\ (i \in DOMAIN cars' /\ i \notin DOMAIN cars) =>
                (i \in trackerNewObjects' /\ i >= nextId) ]_vars
C18_Witness ==
    /\ fin = NoFin
    /\ Cardinality(trackerNewObjects) = 2
    /\ trackerNewObjects \subseteq DOMAIN cars
    /\ \E i, j \in trackerNewObjects : cars[i] = << >> /\ Len(cars[j]) = 1

\* C19: the track of a live car only grows at its end and its timestamps
\* never decrease, so the duration removeCar gets is never negative.
C19_TrackOrdered ==
    [][ /\ \A i \in DOMAIN cars \cap DOMAIN cars' :
              /\ Len(cars'[i]) >= Len(cars[i])
              /\ SubSeq(cars'[i], 1, Len(cars[i])) = cars[i]
        /\ \A i \in DOMAIN cars' : \A k \in 1..(Len(cars'[i]) - 1) :
              cars'[i][k].Created <= cars'[i][k + 1].Created
        /\ fin'.id # 0 => fin'.duration >= 0 ]_vars
C19_Witness ==
    /\ fin.id # 0
    /\ Len(fin.track) >= 3
    /\ fin.duration > 0
    /\ fin.track[1].Created = fin.track[2].Created

\* C16: a frame in which the refinement tracker returns a degenerate center
\* for a car appends nothing to its track and does not by itself have the
\* car finalized; a track grows by at most one point per frame and every
\* stored point has X > 0 and Y > 0.
C16_FailedRefinementSkipped ==
    [][ /\ framesRead' # framesRead =>
              \A i \in refineFailed' :
                  /\ i \in DOMAIN cars'
                  /\ cars'[i] = IF i \in DOMAIN cars THEN cars[i] ELSE << >>
                  /\ trackerObjects' = {i} =>
                        \A k \in 1..Len(pending') : pending'[k] # i
        /\ \A i \in DOMAIN cars \cap DOMAIN cars' :
              Len(cars'[i]) <= Len(cars[i]) + 1
        /\ \A i \in DOMAIN cars' : \A k \in 1..Len(cars'[i]) :
              cars'[i][k].Point[1] > 0 /\ cars'[i][k].Point[2] > 0 ]_vars
C16_Witness ==
    /\ loopPc = "read"
    /\ fin = NoFin
    /\ \E i \in refineFailed : i \in DOMAIN cars /\ Len(cars[i]) >= 1

\* C14: an identity is deregistered in exactly the Update in which its
\* disappearedCount is incremented beyond maxDisappearedFrames, and a match
\* resets the count to 0.
C14_DeregisteredOnTheFrame ==
    [][ tracker'.updates # tracker.updates =>
          \A i \in DOMAIN tracker.idents :
            LET matched == \E p \in tracker'.assigned : p[1] = i
                count   == tracker.idents[i].disappearedCount + 1
            IN  /\ matched =>
                      /\ i \in DOMAIN tracker'.idents
                      /\ tracker'.idents[i].disappearedCount = 0
                /\ (~matched /\ count > maxDisappearedFrames) =>
                      /\ i \notin DOMAIN tracker'.idents
                      /\ i \in tracker'.disappeared
                /\ (~matched /\ count <= maxDisappearedFrames) =>
                      /\ i \in DOMAIN tracker'.idents
                      /\ i \notin tracker'.disappeared
                      /\ tracker'.idents[i].disappearedCount = count ]_vars
C14_Witness ==
    /\ tracker.seen
    /\ tracker.disappeared # {}
    /\ \E p \in tracker.assigned :
          /\ tracker.before[p[1]].disappearedCount = maxDisappearedFrames
          /\ tracker.idents[p[1]].disappearedCount = 0

\* C15: no accepted (identity, detection) pair is maxMatchDistance or more
\* apart; two identities standing farther apart than maxMatchDistance that
\* are detected where they stand keep their ids and centers, and no new id
\* is registered.
C15_NoDistantMatch ==
    [][ tracker'.updates # tracker.updates =>
          /\ \A p \in tracker'.assigned :
                distanceBetweenPoints(tracker.idents[p[1]].center, p[2])
                    < maxMatchDistance
          /\ \A i, j \in DOMAIN tracker.idents :
                ( /\ DOMAIN tracker.idents = {i, j}
                  /\ i # j
                  /\ distanceBetweenPoints(tracker.idents[i].center,
                                           tracker.idents[j].center)
                        > maxMatchDistance
                  /\ tracker'.dets = { tracker.idents[i].center,
                                       tracker.idents[j].center } )
                => /\ DOMAIN tracker'.idents = {i, j}
                   /\ tracker'.idents[i].center = tracker.idents[i].center
                   /\ tracker'.idents[j].center = tracker.idents[j].center
                   /\ tracker'.new = {} ]_vars
C15_Witness ==
    /\ tracker.seen
    /\ tracker.updates >= 3
    /\ tracker.new = {}
    /\ DOMAIN tracker.idents = {1, 2}
    /\ DOMAIN tracker.before = {1, 2}
    /\ tracker.dets = { <<10, 100>>, <<80, 100>> }
    /\ tracker.assigned = { <<1, <<10, 100>> >>, <<2, <<80, 100>> >> }

\* C20: padRect returns a rectangle inside the 640 x 480 frame, and Max.X is
\* the padded Max.X unless that is beyond 639.
C20_PadRectClamped ==
    pad.called =>
        /\ pad.out.Min.X >= 0
        /\ pad.out.Min.Y >= 0
        /\ pad.out.Max.X <= 639
        /\ pad.out.Max.Y <= 479
        /\ \/ pad.out.Max.X = pad.rect.Max.X + pad.padAmount
           \/ pad.rect.Max.X + pad.padAmount > 639 /\ pad.out.Max.X = 639

====
